---- MODULE Spec2Model ----
(***************************************************************************)
(* Model of src/trading_bot.py: a Telegram bot that scans a fixed list of  *)
(* (symbol, timeframe) pairs on a 15 minute schedule, evaluates an         *)
(* RSI/EMA rule on the latest candle and sends the resulting alert to the  *)
(* single chat id saved by the /start command.                             *)
(*                                                                         *)
(* Python values are modelled as follows.                                  *)
(*   Optional values (None or a value) are sets with at most one element:  *)
(*     None is {} and a value x is {x}.                                    *)
(*   Floats are records [nan, v]: NaN is [nan |-> TRUE, v |-> 0]; a number *)
(*     is [nan |-> FALSE, v |-> n].  Prices count units of 0.00001 (1.0 is   *)
(*     100000), RSI values count whole points.                             *)
(*   Text produced by the '.4f' format is a sequence of 1-character        *)
(*     strings.                                                            *)
(***************************************************************************)
EXTENDS Integers, Sequences, FiniteSets, TLC

VARIABLES
    TARGET_CHAT_ID,   \* the module global of line 18: None or the saved chat id
    replies,          \* one entry per /start command handled: chat, reply, delivery status
    runs,             \* one entry per started check_for_signals coroutine
    firings,          \* number of interval firings of the scheduler so far
    evalIn,           \* arguments of a stand-alone generate_signal call
    evalOut           \* its return value

vars == <<TARGET_CHAT_ID, replies, runs, firings, evalIn, evalOut>>

botVars == <<TARGET_CHAT_ID, replies, runs, firings>>

evalVars == <<evalIn, evalOut>>

-----------------------------------------------------------------------------
(* Bounds of the model.                                                    *)

\* number of interval firings of the scheduler that are explored
MaxFirings == 2

\* number of /start commands that are explored
MaxStarts == 2

-----------------------------------------------------------------------------
(* Python values.                                                          *)

None == {}

Some(x) == {x}

TheValue(opt) == CHOOSE x \in opt : TRUE

NaN == [nan |-> TRUE, v |-> 0]

Num(n) == [nan |-> FALSE, v |-> n]

\* the price 1.0, in units of 0.00001
PriceUnit == 100 * 1000

\* Mutation of FloatLt: an absent (NaN) value is read as zero.
FloatLt_nan_as_zero(a, b) ==
    (IF a.nan THEN 0 ELSE a.v) < (IF b.nan THEN 0 ELSE b.v)

\* Python's a < b on floats: False as soon as an operand is NaN.
FloatLt(a, b) == ~a.nan /\ ~b.nan /\ a.v < b.v

\* Python's a > b on floats.
FloatGt(a, b) == FloatLt(b, a)

-----------------------------------------------------------------------------
(* Configuration.                                                          *)

PAIRS_TO_SCAN ==
    << <<"BTC/USDT", "15m">>,
       <<"ETH/USDT", "15m">>,
       <<"BTC/USDT", "1h">>,
       <<"SOL/USDT", "1h">> >>

NumPairs == Len(PAIRS_TO_SCAN)

\* limit=100 of fetch_ohlcv
FETCH_LIMIT == 100

\* len(df) < 50
MIN_CANDLES == 50

\* df.ta.rsi(length=14)
RSI_LENGTH == 14

\* last_candle['RSI_14'] < 35
RSI_OVERSOLD == 35

-----------------------------------------------------------------------------
(* The '.4f' format.                                                       *)

DigitChar(d) ==
    CASE d = 0 -> "0" [] d = 1 -> "1" [] d = 2 -> "2" [] d = 3 -> "3"
      [] d = 4 -> "4" [] d = 5 -> "5" [] d = 6 -> "6" [] d = 7 -> "7"
      [] d = 8 -> "8" [] d = 9 -> "9"

RECURSIVE Digits(_)
\* the decimal digits of a natural number, most significant first
Digits(n) == IF n < 10 THEN <<DigitChar(n)>>
             ELSE Digits(n \div 10) \o <<DigitChar(n % 10)>>

\* n / d rounded to the nearest integer, ties to even (n >= 0, d > 0)
RoundHalfEven(n, d) ==
    LET q == n \div d
        r == n % d
    IN  IF 2 * r < d THEN q
        ELSE IF 2 * r > d THEN q + 1
        ELSE IF q % 2 = 0 THEN q ELSE q + 1

\* f"{x:.4f}" for a non-negative price x counted in units of 0.00001
Format4(x) ==
    LET q    == RoundHalfEven(x, 10)
        frac == q % 10000
    IN  Digits(q \div 10000) \o <<".">> \o
        << DigitChar(frac \div 1000), DigitChar((frac \div 100) % 10),
           DigitChar((frac \div 10) % 10), DigitChar(frac % 10) >>

-----------------------------------------------------------------------------
(* generate_signal.                                                        *)
(* A data frame is the record [n, close, rsi, ema]: its number of rows,    *)
(* and the last row's close, RSI_14 and EMA_50 as pandas_ta leaves them    *)
(* after df.ta.rsi(length=14, append=True), df.ta.ema(length=50, ...).     *)

\* entry_price * 1.03
take_profit(entry_price) == (entry_price * 103) \div 100

\* Mutation of stop_loss: the band is applied above the entry price.
stop_loss_above(entry_price) == (entry_price * 203) \div 200

\* entry_price * 0.985 (0.985 = 197/200, exact on the prices explored)
stop_loss(entry_price) == (entry_price * 197) \div 200

\* Mutation of is_oversold: the cutoff is inclusive.
is_oversold_inclusive(last_candle) ==
    ~last_candle.rsi.nan /\ last_candle.rsi.v <= RSI_OVERSOLD

is_oversold(last_candle) == FloatLt(last_candle.rsi, Num(RSI_OVERSOLD))

is_uptrend(last_candle) == FloatGt(last_candle.close, last_candle.ema)

\* the f-string of lines 78-87: the fixed template and its five holes
signal_message(symbol, timeframe, entry_price, tp, sl) ==
    [ title     |-> "**New AI Signal**",
      symbol    |-> symbol,
      timeframe |-> timeframe,
      signal    |-> "LONG (BUY)",
      reason    |-> "RSI Oversold in Uptrend",
      entry     |-> Format4(entry_price),
      tp        |-> Format4(tp),
      sl        |-> Format4(sl) ]

generate_signal(df, symbol, timeframe) ==
    IF df = None \/ TheValue(df).n < MIN_CANDLES THEN None
    ELSE LET last_candle == TheValue(df)
         IN  IF is_oversold(last_candle) /\ is_uptrend(last_candle)
             THEN LET entry_price == last_candle.close.v
                      tp == take_profit(entry_price)
                      sl == stop_loss(entry_price)
                  IN  Some(signal_message(symbol, timeframe, entry_price, tp, sl))
             ELSE None

-----------------------------------------------------------------------------
(* get_crypto_data.                                                        *)
(* The exchange's answer to fetch_ohlcv is [raised, frame]: either the     *)
(* call raised an exception, or it returned bars that make the frame.      *)

get_crypto_data(response) ==
    IF response.raised THEN None ELSE Some(response.frame)

Frame(n, close, rsi, ema) == [n |-> n, close |-> close, rsi |-> rsi, ema |-> ema]

\* a full window whose last candle is oversold in a downtrend
QuietFrame == Frame(FETCH_LIMIT, Num(100 * PriceUnit), Num(20), Num(105 * PriceUnit))

\* a full window whose last candle is oversold in an uptrend
SignalFrame == Frame(FETCH_LIMIT, Num(100 * PriceUnit), Num(30), Num(95 * PriceUnit))

\* the answers of the exchange explored for each pair of a run
Responses ==
    { [raised |-> TRUE, frame |-> QuietFrame] } \cup
    { [raised |-> FALSE, frame |-> f] : f \in {QuietFrame, SignalFrame} }

-----------------------------------------------------------------------------
(* The /start command.                                                     *)

\* chat ids of the users who talk to the bot (Telegram chat ids are never 0)
ChatIds == {1001, 1002}

REPLY_SAVED == "Hello! I will now send trading signals to this chat. Your Chat ID is: <id>. I have saved it."

REPLY_HERE == "I'm already configured to send signals here."

REPLY_OTHER == "I'm already configured to send signals to another user."

\* Mutation of start_registry: every /start overwrites the saved id.
start_registry_overwrite(target, user_chat_id) == Some(user_chat_id)

\* Mutation of start_registry: the id is not yet saved when start() is
\* suspended at its reply.
start_registry_deferred(target, user_chat_id) == target

\* TARGET_CHAT_ID after start() has run for user_chat_id
start_registry(target, user_chat_id) ==
    IF target = None THEN Some(user_chat_id) ELSE target

\* Mutation of start_reply: the two elif/else answers are exchanged.
start_reply_swapped(target, user_chat_id) ==
    IF target = None THEN REPLY_SAVED
    ELSE IF target = Some(user_chat_id) THEN REPLY_OTHER
    ELSE REPLY_HERE

\* Mutation of start_reply: a saved id is never recognised again.
start_reply_forgetful(target, user_chat_id) ==
    IF target = None THEN REPLY_SAVED ELSE REPLY_OTHER

\* the text start() passes to reply_text for user_chat_id
start_reply(target, user_chat_id) ==
    IF target = None THEN REPLY_SAVED
    ELSE IF target = Some(user_chat_id) THEN REPLY_HERE
    ELSE REPLY_OTHER

\* start(): lines 120-133 up to the await of reply_text
start(user_chat_id) ==
    /\ Len(replies) < MaxStarts
    /\ TARGET_CHAT_ID' = start_registry(TARGET_CHAT_ID, user_chat_id)
    /\ replies' = Append(replies,
           [ chat   |-> user_chat_id,
             text   |-> start_reply(TARGET_CHAT_ID, user_chat_id),
             id     |-> IF TARGET_CHAT_ID = None THEN Some(user_chat_id) ELSE None,
             status |-> "awaiting" ])
    /\ UNCHANGED <<runs, firings, evalVars>>

\* the awaited reply_text of handler k returns
reply_delivered(k) ==
    /\ replies[k].status = "awaiting"
    /\ replies' = [replies EXCEPT ![k].status = "delivered"]
    /\ UNCHANGED <<TARGET_CHAT_ID, runs, firings, evalVars>>

\* the awaited reply_text of handler k raises; start() has nothing after it
reply_failed(k) ==
    /\ replies[k].status = "awaiting"
    /\ replies' = [replies EXCEPT ![k].status = "failed"]
    /\ UNCHANGED <<TARGET_CHAT_ID, runs, firings, evalVars>>

-----------------------------------------------------------------------------
(* check_for_signals and the scheduler.                                    *)
(* A run is [pc, i, log]: pc is "fetch" (about to fetch pair i), "send"    *)
(* (suspended at the await of send_message for pair i), "done" (returned   *)
(* after the loop), "unset" (returned at line 100) or "raised" (left by an *)
(* exception).  log has one entry per pair the run has processed.          *)
(* get_crypto_data and generate_signal are synchronous, so the coroutine   *)
(* yields to the event loop only at the await of send_message; the model   *)
(* takes one step per pair, which lets /start commands and firings fall    *)
(* between two fetches as well as inside a send.  /start handlers may be   *)
(* in flight together, each suspended at its reply_text.                   *)

\* Mutation of NotTruthy: the guard of line 98 never returns early.
NotTruthy_never(target) == FALSE

\* Python's `not TARGET_CHAT_ID`
NotTruthy(target) == target = None \/ target = Some(0)

Active(run) == run.pc \in {"fetch", "send"}

\* Mutation of InstanceLimitReached: the job may run in any number of instances.
InstanceLimitReached_unlimited == FALSE

\* Mutation of InstanceLimitReached: a run left by an exception is still
\* counted as a running instance.
InstanceLimitReached_leak ==
    \E r \in DOMAIN runs : runs[r].pc \in {"fetch", "send", "raised"}

\* add_job(...) without max_instances: one instance of the job at a time
InstanceLimitReached == \E r \in DOMAIN runs : Active(runs[r])

\* what stays of a coroutine once it has finished and the next firing comes
Released(run) == IF Active(run) THEN run ELSE [run EXCEPT !.log = <<>>]

\* the interval fires while an instance is running: the firing is dropped
scheduler_skip ==
    /\ firings < MaxFirings
    /\ InstanceLimitReached
    /\ firings' = firings + 1
    /\ UNCHANGED <<TARGET_CHAT_ID, replies, runs, evalVars>>

\* the interval fires and check_for_signals starts: lines 97-102
scheduler_run ==
    /\ firings < MaxFirings
    /\ ~InstanceLimitReached
    /\ firings' = firings + 1
    /\ runs' = Append([r \in DOMAIN runs |-> Released(runs[r])],
                      IF NotTruthy(TARGET_CHAT_ID)
                      THEN [pc |-> "unset", i |-> 0, log |-> <<>>]
                      ELSE [pc |-> "fetch", i |-> 1, log |-> <<>>])
    /\ UNCHANGED <<TARGET_CHAT_ID, replies, evalVars>>

\* Mutation of NextPair: the loop goes round without leaving its pair.
NextPair_repeat(run) == [run EXCEPT !.pc = "fetch"]

\* Mutation of NextPair: the loop steps over the pair that follows.
NextPair_skip(run) ==
    IF run.i + 1 < NumPairs THEN [run EXCEPT !.pc = "fetch", !.i = run.i + 2]
    ELSE [run EXCEPT !.pc = "done", !.i = NumPairs + 1]

\* the loop moves on from pair run.i
NextPair(run) ==
    IF run.i < NumPairs THEN [run EXCEPT !.pc = "fetch", !.i = run.i + 1]
    ELSE [run EXCEPT !.pc = "done", !.i = NumPairs + 1]

\* one iteration of the loop of line 103, up to the await of send_message
process_pair(r) ==
    /\ runs[r].pc = "fetch"
    /\ \E response \in Responses :
         LET i         == runs[r].i
             symbol    == PAIRS_TO_SCAN[i][1]
             timeframe == PAIRS_TO_SCAN[i][2]
             df        == get_crypto_data(response)
             signal    == IF df # None THEN generate_signal(df, symbol, timeframe)
                          ELSE None
             entry     == [ pair    |-> i,
                            raised  |-> response.raised,
                            df      |-> df,
                            signal  |-> signal,
                            chat_id |-> IF signal # None THEN TARGET_CHAT_ID ELSE None,
                            send    |-> IF signal # None THEN "awaiting" ELSE "none" ]
             logged    == [runs[r] EXCEPT !.log = Append(@, entry)]
         IN  runs' = [runs EXCEPT ![r] =
                        IF signal # None THEN [logged EXCEPT !.pc = "send"]
                        ELSE NextPair(logged)]
    /\ UNCHANGED <<TARGET_CHAT_ID, replies, firings, evalVars>>

\* the awaited send_message returns
send_delivered(r) ==
    /\ runs[r].pc = "send"
    /\ runs' = [runs EXCEPT ![r] =
                  NextPair([@ EXCEPT !.log[Len(@.log)].send = "delivered"])]
    /\ UNCHANGED <<TARGET_CHAT_ID, replies, firings, evalVars>>

\* the awaited send_message raises: nothing in check_for_signals catches it
send_failed(r) ==
    /\ runs[r].pc = "send"
    /\ runs' = [runs EXCEPT ![r] =
                  [@ EXCEPT !.pc = "raised", !.log[Len(@.log)].send = "failed"]]
    /\ UNCHANGED <<TARGET_CHAT_ID, replies, firings, evalVars>>

-----------------------------------------------------------------------------
(* The program: the command handler and the scheduler share one event loop.*)

Idle == [df |-> None, pair |-> 1]

NotEvaluated == [done |-> FALSE, value |-> None]

Init ==
    /\ TARGET_CHAT_ID = None
    /\ replies = <<>>
    /\ runs = <<>>
    /\ firings = 0
    /\ evalIn = Idle
    /\ evalOut = NotEvaluated

Next ==
    \/ \E user_chat_id \in ChatIds : start(user_chat_id)
    \/ \E k \in DOMAIN replies : reply_delivered(k)
    \/ \E k \in DOMAIN replies : reply_failed(k)
    \/ scheduler_skip
    \/ scheduler_run
    \/ \E r \in DOMAIN runs : process_pair(r)
    \/ \E r \in DOMAIN runs : send_delivered(r)
    \/ \E r \in DOMAIN runs : send_failed(r)

Spec == Init /\ [][Next]_vars

-----------------------------------------------------------------------------
(* generate_signal on its own: every explored frame is evaluated.         *)

\* closes explored: absent, 0, 0.002, 95, 100, 105
Closes ==
    {NaN} \cup { Num(c) : c \in {0, PriceUnit \div 500, 95 * PriceUnit,
                                 100 * PriceUnit, 105 * PriceUnit} }

\* RSI_14 values explored, around the cutoff and at both ends of the scale
RsiValues == {NaN} \cup { Num(x) : x \in {0, 20, 30, 34, 35, 36, 100} }

\* EMA_50 values explored: absent, 0.001, 95, 100, 105
EmaValues ==
    {NaN} \cup {Num(PriceUnit \div 1000)} \cup { Num(e * PriceUnit) : e \in {95, 100, 105} }

Lengths == {0, RSI_LENGTH, MIN_CANDLES - 1, MIN_CANDLES, FETCH_LIMIT}

\* frames as they can be after lines 61-62: no last row in an empty frame,
\* no RSI before RSI_LENGTH changes, no EMA column below MIN_CANDLES rows
Frames ==
    { f \in { Frame(n, c, x, e) :
                n \in Lengths, c \in Closes, x \in RsiValues, e \in EmaValues } :
        /\ f.n = 0 => f.close.nan
        /\ f.n <= RSI_LENGTH => f.rsi.nan
        /\ f.n < MIN_CANDLES => f.ema.nan }

EvalInputs ==
    { [df |-> d, pair |-> p] :
        d \in {None} \cup { Some(f) : f \in Frames }, p \in 1..NumPairs }

\* one call of generate_signal with the arguments in evalIn
evaluate ==
    /\ ~evalOut.done
    /\ evalOut' = [ done  |-> TRUE,
                    value |-> generate_signal(evalIn.df,
                                              PAIRS_TO_SCAN[evalIn.pair][1],
                                              PAIRS_TO_SCAN[evalIn.pair][2]) ]
    /\ UNCHANGED <<evalIn, botVars>>

\* the next call, with any arguments
next_call ==
    /\ evalOut.done
    /\ evalIn' \in EvalInputs
    /\ evalOut' = NotEvaluated
    /\ UNCHANGED botVars

InitSignal ==
    /\ TARGET_CHAT_ID = None
    /\ replies = <<>>
    /\ runs = <<>>
    /\ firings = 0
    /\ evalIn \in EvalInputs
    /\ evalOut = NotEvaluated

NextSignal == evaluate \/ next_call

SpecSignal == InitSignal /\ [][NextSignal]_vars

-----------------------------------------------------------------------------
(* Properties of check_for_signals, start and the scheduler (under Spec).  *)

Finished(run) == ~Active(run)

\* the pairs a run has fetched so far
FetchedPairs(run) == { run.log[k].pair : k \in DOMAIN run.log }

\* C1: a send_message that fails for one pair is caught inside the run: the
\* run is not left by the exception, and once the run has ended every pair
\* configured after the failed one has been fetched in that same run.
C1_SendFailureIsContained ==
    \A r \in DOMAIN runs :
        /\ runs[r].pc # "raised"
        /\ \A k \in DOMAIN runs[r].log :
             (runs[r].log[k].send = "failed" /\ Finished(runs[r]))
                 => (runs[r].log[k].pair + 1)..NumPairs \subseteq FetchedPairs(runs[r])

\* C2: in a run that started with a subscriber, a failed fetch skips only
\* its own pair: when the run has ended, every other configured pair has
\* been fetched and evaluated, and a send was made for each signal found.
C2_FetchFailureSkipsOnlyItsPair ==
    \A r \in DOMAIN runs :
        (Finished(runs[r]) /\ \E k \in DOMAIN runs[r].log : runs[r].log[k].raised)
            => \A p \in 1..NumPairs :
                 \E k \in DOMAIN runs[r].log :
                    /\ runs[r].log[k].pair = p
                    /\ runs[r].log[k].raised \/ runs[r].log[k].df # None
                    /\ runs[r].log[k].signal # None => runs[r].log[k].send # "none"

\* C3: the registry is Unset as long as no /start was handled and from then
\* on holds the chat id of the first /start handled; once Set it is never
\* Unset again and never holds another id, whatever runs and commands follow.
C3_RegistryKeepsFirstId ==
    /\ [](/\ Cardinality(TARGET_CHAT_ID) <= 1
          /\ TARGET_CHAT_ID = IF replies = <<>> THEN None ELSE Some(replies[1].chat))
    /\ [][TARGET_CHAT_ID # None => TARGET_CHAT_ID' = TARGET_CHAT_ID]_vars

\* C3 witness: two /start commands from different chats were handled, a run
\* has completed, and the registry holds the first chat's id.
C3_Witness ==
    /\ Len(replies) >= 2
    /\ replies[1].chat # replies[2].chat
    /\ TARGET_CHAT_ID = Some(replies[1].chat)
    /\ \E r \in DOMAIN runs : runs[r].pc = "done"

\* C4: a /start from a chat other than the saved one leaves the registry as
\* it was and is answered with the 'another user' text, not with the
\* 'saved' or the 'already here' text.
C4_OtherChatIsRejected ==
    [][ ( /\ TARGET_CHAT_ID # None
          /\ Len(replies') = Len(replies) + 1
          /\ Some(replies'[Len(replies')].chat) # TARGET_CHAT_ID )
        => ( /\ TARGET_CHAT_ID' = TARGET_CHAT_ID
             /\ replies'[Len(replies')].text = REPLY_OTHER
             /\ replies'[Len(replies')].text \notin {REPLY_SAVED, REPLY_HERE}
             /\ replies'[Len(replies')].id = None ) ]_vars

\* C4 witness: the second /start came from another chat and was refused.
C4_Witness ==
    /\ Len(replies) >= 2
    /\ replies[2].chat # replies[1].chat
    /\ replies[2].text = REPLY_OTHER
    /\ TARGET_CHAT_ID = Some(replies[1].chat)

\* C5: every /start from the chat that registered first succeeds: the first
\* is answered 'saved' with that chat's id, each later one 'already here',
\* and the registry holds that id throughout.
C5_SameChatIsIdempotent ==
    \A k \in DOMAIN replies :
        replies[k].chat = replies[1].chat
            => /\ TARGET_CHAT_ID = Some(replies[1].chat)
               /\ k = 1 => /\ replies[k].text = REPLY_SAVED
                           /\ replies[k].id = Some(replies[1].chat)
               /\ k > 1 => replies[k].text = REPLY_HERE

\* C5 witness: the same chat sent /start twice and got both answers.
C5_Witness ==
    /\ Len(replies) >= 2
    /\ replies[2].chat = replies[1].chat
    /\ replies[1].text = REPLY_SAVED
    /\ replies[2].text = REPLY_HERE
    /\ TARGET_CHAT_ID = Some(replies[1].chat)

\* C6: while the registry is Unset every run has returned at the guard: it
\* fetched nothing, called send_message for nothing and raised nothing; a
\* run that returned at the guard keeps nothing, and every send_message call
\* of any run carries a signal that run evaluated itself, addressed to the
\* saved id.
C6_NoSendWhileUnset ==
    /\ TARGET_CHAT_ID = None
         => \A r \in DOMAIN runs : runs[r].pc = "unset" /\ runs[r].log = <<>>
    /\ \A r \in DOMAIN runs :
         /\ runs[r].pc = "unset" => runs[r].log = <<>>
         /\ \A k \in DOMAIN runs[r].log :
              runs[r].log[k].send # "none"
                  => /\ runs[r].log[k].signal # None
                     /\ runs[r].log[k].chat_id # None
                     /\ runs[r].log[k].chat_id = TARGET_CHAT_ID

\* C6 witness: the interval fired twice with nobody registered.
C6_Witness ==
    /\ TARGET_CHAT_ID = None
    /\ Len(runs) >= 2
    /\ \A r \in DOMAIN runs : runs[r].pc = "unset"

\* C7: at most one run is active at any time; a firing that comes while a
\* run is active starts nothing, and a run only ever starts at a firing that
\* finds no run active (a dropped firing is not made up later).
C7_AtMostOneActiveRun ==
    /\ [](Cardinality({ r \in DOMAIN runs : Active(runs[r]) }) <= 1)
    /\ [][ /\ Len(runs') > Len(runs)
             => /\ firings' = firings + 1
                /\ \A r \in DOMAIN runs : ~Active(runs[r])
           /\ (firings' # firings /\ \E r \in DOMAIN runs : Active(runs[r]))
             => runs' = runs ]_vars

\* C7 witness: a firing was dropped while a run is suspended in send_message.
C7_Witness ==
    /\ firings > Len(runs)
    /\ \E r \in DOMAIN runs : runs[r].pc = "send"

-----------------------------------------------------------------------------
(* Properties of generate_signal (under SpecSignal).                       *)

\* the frame of the evaluated call
InFrame == TheValue(evalIn.df)

\* the frame has the rows the strategy needs and both indicators at its last row
Evaluable ==
    /\ evalIn.df # None
    /\ InFrame.n >= MIN_CANDLES
    /\ ~InFrame.rsi.nan
    /\ ~InFrame.ema.nan

C9_NoSignalWithoutIndicators ==
    ( /\ evalOut.done
      /\ evalIn.df # None
      /\ \/ InFrame.n < MIN_CANDLES
         \/ InFrame.rsi.nan
         \/ InFrame.ema.nan )
        => evalOut.value = None

\* C9 witness: a full frame in an uptrend whose RSI_14 is absent was
\* evaluated and gave nothing.
C9_Witness ==
    /\ evalOut.done
    /\ evalIn.df # None
    /\ InFrame.n >= MIN_CANDLES
    /\ InFrame.rsi.nan
    /\ ~InFrame.ema.nan
    /\ ~InFrame.close.nan
    /\ InFrame.close.v > InFrame.ema.v
    /\ evalOut.value = None

\* the text of '.4f' for 100, 103 and 98.5
Text100 == <<"1", "0", "0", ".", "0", "0", "0", "0">>

Text103 == <<"1", "0", "3", ".", "0", "0", "0", "0">>

Text98_5 == <<"9", "8", ".", "5", "0", "0", "0">>

\* C10: a returned message shows the latest close as entry, close x 1.03 as
\* take profit and close x 0.985 as stop loss, each to 4 decimals; the stop
\* loss is below and the take profit above every positive close; for close
\* 100 the three texts are 100.0000, 103.0000 and 98.5000.
C10_PriceBands ==
    (evalOut.done /\ evalOut.value # None)
        => LET m == TheValue(evalOut.value)
               c == InFrame.close.v
           IN  /\ ~InFrame.close.nan
               /\ m.entry = Format4(c)
               /\ m.tp = Format4((c \div 100) * 103)
               /\ m.sl = Format4((c \div 200) * 197)
               /\ 100 * take_profit(c) = 103 * c
               /\ 200 * stop_loss(c) = 197 * c
               /\ c > 0 => stop_loss(c) < c /\ c < take_profit(c)
               /\ c = 100 * PriceUnit
                    => m.entry = Text100 /\ m.tp = Text103 /\ m.sl = Text98_5

\* C10 witness: a signal was returned for close 100 with the three texts.
C10_Witness ==
    /\ evalOut.done
    /\ evalOut.value # None
    /\ InFrame.close = Num(100 * PriceUnit)
    /\ TheValue(evalOut.value).entry = Text100
    /\ TheValue(evalOut.value).tp = Text103
    /\ TheValue(evalOut.value).sl = Text98_5

-----------------------------------------------------------------------------
(* Further properties of the runs (under Spec).                            *)

\* the log entries of a run for which send_message was called
SendEntries(run) == { k \in DOMAIN run.log : run.log[k].send # "none" }

\* C11: within one run send_message is called at most once for each
\* configured (symbol, timeframe): no two entries of a run's log that carry a
\* send are about the same pair, whether the sends failed or not and whatever
\* /start commands were handled meanwhile.
C11_OneSendPerPairAndRun ==
    \A r \in DOMAIN runs :
        \A k, m \in SendEntries(runs[r]) :
            PAIRS_TO_SCAN[runs[r].log[k].pair] = PAIRS_TO_SCAN[runs[r].log[m].pair]
                => k = m

\* C11 witness: a run has called send_message for two pairs, a /start was
\* handled, and the run is suspended in the second send.
C11_Witness ==
    /\ Len(replies) >= 2
    /\ \E r \in DOMAIN runs :
         /\ runs[r].pc = "send"
         /\ Cardinality(SendEntries(runs[r])) >= 2

\* the run started with a registered subscriber
StartedSet(run) == run.pc # "unset"

\* C12: alerts are not suppressed across runs: of two consecutive runs that
\* both started with a subscriber, the later one, once ended, has looked at
\* every configured pair and has called send_message for each pair that
\* showed the oversold-uptrend condition, whatever the earlier run sent.
C12_AlertInEveryRun ==
    \A r \in DOMAIN runs :
        ( /\ r > 1
          /\ StartedSet(runs[r - 1]) /\ Finished(runs[r - 1])
          /\ StartedSet(runs[r]) /\ Finished(runs[r])
          /\ runs[r].log # <<>> )
            => \A p \in 1..NumPairs :
                 \E k \in DOMAIN runs[r].log :
                    /\ runs[r].log[k].pair = p
                    /\ ( /\ runs[r].log[k].df # None
                         /\ is_oversold(TheValue(runs[r].log[k].df))
                         /\ is_uptrend(TheValue(runs[r].log[k].df)) )
                         => runs[r].log[k].send # "none"

\* C13: every send_message call of a run is addressed to the id the
\* registry holds, which is the chat of the first /start handled; no call is
\* addressed to a chat whose /start was answered 'another user'.
C13_AlertsGoToRegisteredId ==
    \A r \in DOMAIN runs :
        \A k \in SendEntries(runs[r]) :
            /\ replies # <<>>
            /\ runs[r].log[k].chat_id = Some(replies[1].chat)
            /\ runs[r].log[k].chat_id = TARGET_CHAT_ID
            /\ \A j \in DOMAIN replies :
                 replies[j].text = REPLY_OTHER
                     => runs[r].log[k].chat_id # Some(replies[j].chat)

\* C13 witness: an alert was delivered to the first chat although a second
\* chat had sent /start before the run began and was refused.
C13_Witness ==
    /\ Len(replies) >= 2
    /\ replies[2].text = REPLY_OTHER
    /\ \E r \in DOMAIN runs :
         \E k \in SendEntries(runs[r]) :
            /\ runs[r].log[k].send = "delivered"
            /\ runs[r].log[k].chat_id = Some(replies[1].chat)

C15_OneSendInFlight ==
    /\ Cardinality({ r \in DOMAIN runs :
                       \E k \in DOMAIN runs[r].log : runs[r].log[k].send = "awaiting" }) <= 1
    /\ \A r \in DOMAIN runs :
         \A k \in DOMAIN runs[r].log :
            runs[r].log[k].send = "awaiting"
                => runs[r].pc = "send" /\ k = Len(runs[r].log)

\* C15 witness: a run is suspended in the send for one pair after the send
\* for an earlier pair was delivered.
C15_Witness ==
    \E r \in DOMAIN runs :
        /\ runs[r].pc = "send"
        /\ \E k \in DOMAIN runs[r].log :
             k < Len(runs[r].log) /\ runs[r].log[k].send = "delivered"

-----------------------------------------------------------------------------
(* df.ta.rsi(length=14) on its own.                                        *)
(* pandas_ta smooths the up-moves and the down-moves of the closes (Wilder *)
(* smoothing) into an average gain and an average loss, both >= 0, and     *)
(* returns 100 * gain / (gain + loss).  On a flat series both averages are *)
(* 0: pandas_ta's own formula divides 0 by 0 and returns NaN, while the    *)
(* TA-Lib backend, which pandas_ta uses when TA-Lib is installed, returns  *)
(* 0.  Which one runs depends on the installation, so both are explored.   *)
(* The value is kept as the exact fraction num / den.                      *)

\* the averages explored are 0..MaxAvg
MaxAvg == 7

\* Mutation of ta_rsi: gains and losses are exchanged.
ta_rsi_swapped(avg_gain, avg_loss, talib) ==
    IF avg_gain + avg_loss = 0
    THEN [nan |-> ~talib, num |-> 0, den |-> 1]
    ELSE [nan |-> FALSE, num |-> 100 * avg_loss, den |-> avg_gain + avg_loss]

\* the last RSI_14 value for the given averages
ta_rsi(avg_gain, avg_loss, talib) ==
    IF avg_gain + avg_loss = 0
    THEN [nan |-> ~talib, num |-> 0, den |-> 1]
    ELSE [nan |-> FALSE, num |-> 100 * avg_gain, den |-> avg_gain + avg_loss]

RsiInputs ==
    { [avg_gain |-> g, avg_loss |-> l, talib |-> t] :
        g \in 0..MaxAvg, l \in 0..MaxAvg, t \in BOOLEAN }

\* one computation of the RSI for the averages in evalIn
rsi_evaluate ==
    /\ ~evalOut.done
    /\ evalOut' = [ done  |-> TRUE,
                    value |-> ta_rsi(evalIn.avg_gain, evalIn.avg_loss, evalIn.talib) ]
    /\ UNCHANGED <<evalIn, botVars>>

\* the next computation, on any averages
rsi_next_call ==
    /\ evalOut.done
    /\ evalIn' \in RsiInputs
    /\ evalOut' = NotEvaluated
    /\ UNCHANGED botVars

InitRsi ==
    /\ TARGET_CHAT_ID = None
    /\ replies = <<>>
    /\ runs = <<>>
    /\ firings = 0
    /\ evalIn \in RsiInputs
    /\ evalOut = NotEvaluated

NextRsi == rsi_evaluate \/ rsi_next_call

SpecRsi == InitRsi /\ [][NextRsi]_vars

-----------------------------------------------------------------------------
(* The text of an alert.                                                   *)
(* generate_signal returns one string, which check_for_signals passes to   *)
(* send_message with parse_mode='MarkdownV2'.  RenderText spells a message *)
(* out as that string, one character per element; the siren emoji is the   *)
(* element "U+1F6A8" and the backquote the element "U+0060".               *)

\* the characters of the strings that fill the template
Chars(s) ==
    CASE s = "BTC/USDT" ->
        <<"B", "T", "C", "/", "U", "S", "D", "T">>
      [] s = "ETH/USDT" ->
        <<"E", "T", "H", "/", "U", "S", "D", "T">>
      [] s = "SOL/USDT" ->
        <<"S", "O", "L", "/", "U", "S", "D", "T">>
      [] s = "15m" ->
        <<"1", "5", "m">>
      [] s = "1h" ->
        <<"1", "h">>
      [] s = "**New AI Signal**" ->
        <<"*", "*", "N", "e", "w", " ", "A", "I", " ", "S", "i", "g", "n",
           "a", "l", "*", "*">>
      [] s = "LONG (BUY)" ->
        <<"L", "O", "N", "G", " ", "(", "B", "U", "Y", ")">>
      [] s = "RSI Oversold in Uptrend" ->
        <<"R", "S", "I", " ", "O", "v", "e", "r", "s", "o", "l", "d", " ",
           "i", "n", " ", "U", "p", "t", "r", "e", "n", "d">>

PairLabel ==
    <<"*", "*", "P", "a", "i", "r", ":", "*", "*", " ">>

TimeframeLabel ==
    <<"*", "*", "T", "i", "m", "e", "f", "r", "a", "m", "e", ":", "*",
           "*", " ">>

SignalLabel ==
    <<"*", "*", "S", "i", "g", "n", "a", "l", ":", "*", "*", " ">>

ReasonLabel ==
    <<"*", "*", "R", "e", "a", "s", "o", "n", ":", "*", "*", " ">>

EntryLabel ==
    <<"*", "*", "E", "n", "t", "r", "y", ":", "*", "*", " ", "U+0060">>

TakeProfitLabel ==
    <<"*", "*", "T", "a", "k", "e", " ", "P", "r", "o", "f", "i", "t",
           " ", "(", "T", "P", ")", ":", "*", "*", " ", "U+0060">>

StopLossLabel ==
    <<"*", "*", "S", "t", "o", "p", " ", "L", "o", "s", "s", " ", "(",
           "S", "L", ")", ":", "*", "*", " ", "U+0060">>

\* the f-string of lines 78-87, character by character
RenderText(m) ==
    <<"U+1F6A8", " ">> \o Chars(m.title) \o <<" ", "U+1F6A8", "\n", "\n">> \o
    PairLabel \o Chars(m.symbol) \o <<"\n">> \o
    TimeframeLabel \o Chars(m.timeframe) \o <<"\n">> \o
    SignalLabel \o Chars(m.signal) \o <<"\n">> \o
    ReasonLabel \o Chars(m.reason) \o <<"\n", "\n">> \o
    EntryLabel \o m.entry \o <<"U+0060", "\n">> \o
    TakeProfitLabel \o m.tp \o <<"U+0060", "\n">> \o
    StopLossLabel \o m.sl \o <<"U+0060">>

\* the characters MarkdownV2 reserves
MarkdownV2Reserved ==
    {"_", "*", "[", "]", "(", ")", "~", "U+0060", ">", "#", "+", "-", "=", "|",
     "{", "}", ".", "!"}

\* the reserved characters the template uses as markup (bold, code)
TemplateMarkup == {"*", "U+0060"}

DigitChars == {"0", "1", "2", "3", "4", "5", "6", "7", "8", "9"}

\* every reserved character of text that is not markup follows a backslash
LiteralsEscaped(text) ==
    \A i \in DOMAIN text :
        text[i] \in MarkdownV2Reserved \ TemplateMarkup
            => i > 1 /\ text[i - 1] = "\\"

\* digits, one ".", and exactly four digits after it
FourDecimals(price) ==
    /\ Len(price) >= 6
    /\ price[Len(price) - 4] = "."
    /\ \A i \in DOMAIN price : i # Len(price) - 4 => price[i] \in DigitChars

\* C16: in every alert text generate_signal returns for MarkdownV2, each
\* reserved character meant literally (the parentheses of 'LONG (BUY)' and of
\* the labels, the '.' of the prices, '-' or '.' in a symbol or reason) follows
\* a backslash, and entry, take profit and stop loss show exactly 4 decimals.
C16_AlertTextIsEscaped ==
    (evalOut.done /\ evalOut.value # None)
        => LET m == TheValue(evalOut.value)
           IN  /\ FourDecimals(m.entry)
               /\ FourDecimals(m.tp)
               /\ FourDecimals(m.sl)
               /\ LiteralsEscaped(RenderText(m))

\* the /start commands that were answered with text
RepliedWith(text) == { k \in DOMAIN replies : replies[k].text = text }

\* C18: /start handlers that interleave at their awaits, with each other
\* and with a run, register atomically: exactly one of all handlers is
\* answered 'saved', it is the one whose id the registry holds, every
\* handler of another chat is answered 'another user', and the registry is
\* Set as soon as any reply is awaited, so it stays Set when a reply fails.
C18_RegistrationIsAtomic ==
    replies # <<>>
        => /\ Cardinality(RepliedWith(REPLY_SAVED)) = 1
           /\ \A k \in RepliedWith(REPLY_SAVED) :
                TARGET_CHAT_ID = Some(replies[k].chat)
           /\ \A k \in DOMAIN replies :
                Some(replies[k].chat) # TARGET_CHAT_ID
                    => replies[k].text = REPLY_OTHER
           /\ TARGET_CHAT_ID # None

\* C18 witness: two chats sent /start, the first handler's reply failed
\* while the second was still awaiting its reply and a run was active; the
\* registry holds the first chat's id and the second was refused.
C18_Witness ==
    /\ Len(replies) >= 2
    /\ replies[1].chat # replies[2].chat
    /\ replies[1].status = "failed"
    /\ replies[2].status = "awaiting"
    /\ replies[1].text = REPLY_SAVED
    /\ replies[2].text = REPLY_OTHER
    /\ TARGET_CHAT_ID = Some(replies[1].chat)
    /\ \E r \in DOMAIN runs : Active(runs[r])

\* C19: a run that starts while the registry is Unset returns at once: it
\* starts as returned with nothing fetched, leaves the registry Unset and
\* never does anything later; a fetch is only ever made by a run that
\* started with the registry Set.
C19_UnsetRunTouchesNothing ==
    [][ /\ (Len(runs') > Len(runs) /\ TARGET_CHAT_ID = None)
          => /\ runs'[Len(runs')] = [pc |-> "unset", i |-> 0, log |-> <<>>]
             /\ TARGET_CHAT_ID' = None
        /\ \A r \in DOMAIN runs :
             /\ runs[r].pc = "unset" => runs'[r] = runs[r]
             /\ Len(runs'[r].log) > Len(runs[r].log)
                  => runs[r].pc = "fetch" /\ TARGET_CHAT_ID # None ]_vars

\* C19 witness: the first run returned at the guard, then a chat registered
\* and the second run has fetched a pair.
C19_Witness ==
    /\ Len(runs) >= 2
    /\ runs[1] = [pc |-> "unset", i |-> 0, log |-> <<>>]
    /\ runs[2].pc # "unset"
    /\ runs[2].log # <<>>

\* progress of a run through check_for_signals
Progress(run) ==
    2 * run.i + (CASE run.pc = "send" -> 1 [] run.pc = "raised" -> 2 [] OTHER -> 0)

\* C20: a run that started with a subscriber fetches the pairs in the order
\* of PAIRS_TO_SCAN, each once: the k-th entry of its log is about pair k and
\* its sends are in that order; every step of the run moves it forward, an
\* active run can always take a step, and when it returns after the loop (no
\* send having failed) it has fetched every configured pair.
C20_EveryPairOnceInOrder ==
    /\ [](\A r \in DOMAIN runs :
            /\ \A k \in DOMAIN runs[r].log : runs[r].log[k].pair = k
            /\ Len(runs[r].log) <= NumPairs
            /\ Active(runs[r])
                 => ENABLED (process_pair(r) \/ send_delivered(r) \/ send_failed(r)))
    /\ [][ \A r \in DOMAIN runs :
             /\ (Active(runs[r]) /\ runs'[r] # runs[r])
                  => Progress(runs'[r]) > Progress(runs[r])
             /\ (runs[r].pc # "done" /\ runs'[r].pc = "done")
                  => /\ Len(runs'[r].log) = NumPairs
                     /\ \A k \in DOMAIN runs'[r].log :
                          runs'[r].log[k].send \in {"none", "delivered"} ]_vars

\* C20 witness: a run has returned after the loop with all four pairs in
\* its log, two of them with a delivered send.
C20_Witness ==
    \E r \in DOMAIN runs :
        /\ runs[r].pc = "done"
        /\ Len(runs[r].log) = NumPairs
        /\ Cardinality({ k \in DOMAIN runs[r].log : runs[r].log[k].send = "delivered" }) >= 2

-----------------------------------------------------------------------------
(* Properties of the RSI (under SpecRsi).                                  *)

RsiDefined == evalOut.done /\ ~evalOut.value.nan

RsiIs(x) == evalOut.value.num = x * evalOut.value.den

RsiInRange ==
    /\ 0 <= evalOut.value.num
    /\ evalOut.value.num <= 100 * evalOut.value.den

====
